---- MODULE Spec2Model ----
(***************************************************************************)
(* Model of generate_icons.py: a linear script that prepares the output    *)
(* directory, draws eight spinner frames and one bell icon on 16x16 RGBA   *)
(* canvases, saves each as a PNG file and prints a progress line per file. *)
(* The filesystem (directories, files of the output directory) and the     *)
(* standard output are part of the state; one action models one statement  *)
(* (or one group of statements without an observable point in between).    *)
(***************************************************************************)
EXTENDS Integers, Sequences, FiniteSets, TLC

VARIABLES
    platform,     \* "nt" or "posix": decides how the backslash of out_dir is read
    dirs,         \* the directories that exist, each a sequence of path components
    files,        \* the files of the output directory: file name -> content
    pc,           \* the statement the interpreter is about to execute
    i,            \* the loop variable of the spinner loop
    it,           \* the next value the iterator of range(8) yields
    img,          \* the canvas bound to the name img
    start_angle,  \* the script's variable start_angle
    end_angle,    \* the script's variable end_angle
    out,          \* the lines printed on standard output by the current run
    log,          \* the events of the current run, in order: [op, arg] with op
                  \* makedirs, write (arg: file name), print (arg: line), raise
    draws,        \* the draw calls of the current run, in order
    run,          \* the number of the current run of the script (1, 2, ...)
    dirs0,        \* the directories that existed when the current run started
    files0,       \* the files of the output directory when the current run started
    lastDone      \* the files left by the latest earlier complete run, or NoRun

vars == <<platform, dirs, files, pc, i, it, img, start_angle, end_angle, out, log,
          draws, run, dirs0, files0, lastDone>>

----------------------------------------------------------------------------
(* Bounds of the model. *)

\* the number of times the script is run in succession
MaxRuns == 2

----------------------------------------------------------------------------
(* Constants of the script. *)

\* range(8)
NumFrames == 8
\* the canvas is (16, 16)
CanvasSide == 16
\* i * 45
AngleStep == 45
\* start_angle + 90
AngleSweep == 90
\* width=2 of draw.arc
ArcWidth == 2

\* (0, 0, 0, 0), the background of Image.new
Transparent == <<0, 0, 0, 0>>
\* fill=(0, 102, 204, 255) of draw.arc
ArcFill == <<0, 102, 204, 255>>
\* bell_color = (220, 80, 40, 255)
bell_color == <<220, 80, 40, 255>>

\* the bounding box of draw.arc
ArcBox == <<1, 1, 14, 14>>
\* the bounding box and the angles of draw.pieslice (the dome)
DomeBox == <<3, 1, 12, 10>>
DomeStart == 180
DomeEnd == 360
\* the bounding boxes of the two draw.rectangle calls and of draw.ellipse
BodyBox == <<3, 6, 12, 11>>
RimBox == <<2, 11, 13, 13>>
\* a mutant of ClapperBox: the clapper reaches below the canvas
ClapperBoxBelow == <<6, 13, 9, 16>>
ClapperBox == <<6, 13, 9, 15>>

----------------------------------------------------------------------------
(* Paths.  out_dir is the raw string src\Resources: two components where   *)
(* the backslash separates (Windows), one component elsewhere.             *)

out_dir(pf) == IF pf = "nt" THEN <<"src", "Resources">> ELSE <<"src\\Resources">>

\* the prefixes of a path: the directories os.makedirs has to make exist
Prefixes(path) == {SubSeq(path, 1, n) : n \in 1..Len(path)}

\* a mutant of SpinnerName: the frames are numbered from 1
SpinnerNameFromOne(k) == "spinner_" \o ToString(k + 1) \o ".png"

\* f"spinner_{i}.png"
SpinnerName(k) == "spinner_" \o ToString(k) \o ".png"
BellName == "bell.png"

\* f"Generated spinner_{i}.png", "Generated bell.png", the final line
Generated(name) == "Generated " \o name
AllDone == "All icons generated successfully!"

----------------------------------------------------------------------------
(* Canvases and the draw primitives.  A canvas is a mode, a size and a     *)
(* colour per pixel.  Ellipses are the ideal ellipse inscribed in the      *)
(* pixel area of the bounding box, tested at pixel centres in doubled      *)
(* integer coordinates; angles are multiples of 45 degrees, measured       *)
(* clockwise from 3 o'clock and taken modulo 360.                          *)

Pixels(w, h) == (0..(w - 1)) \X (0..(h - 1))

\* Image.new(mode, size, color)
NewImage(mode, size, color) ==
    [mode |-> mode, size |-> size,
     px |-> [p \in Pixels(size[1], size[2]) |-> color]]

InBox(p, box) ==
    /\ box[1] <= p[1] /\ p[1] <= box[3]
    /\ box[2] <= p[2] /\ p[2] <= box[4]

\* p lies in the ellipse inscribed in box
InEllipse(p, box) ==
    LET w == box[3] - box[1] + 1
        h == box[4] - box[2] + 1
        dx == 2 * p[1] - (box[1] + box[3])
        dy == 2 * p[2] - (box[2] + box[4])
    IN  /\ w > 0 /\ h > 0
        /\ dx * dx * h * h + dy * dy * w * w <= w * w * h * h

\* (dx, dy) lies in the closed 45-degree sector k, sector 0 being 0..45 degrees
InSector(dx, dy, k) ==
    CASE k = 0 -> dy >= 0 /\ dx >= dy
      [] k = 1 -> dx >= 0 /\ dy >= dx
      [] k = 2 -> dx <= 0 /\ dy >= -dx
      [] k = 3 -> dy >= 0 /\ -dx >= dy
      [] k = 4 -> dy <= 0 /\ -dx >= -dy
      [] k = 5 -> dx <= 0 /\ -dy >= -dx
      [] k = 6 -> dx >= 0 /\ -dy >= dx
      [] k = 7 -> dy <= 0 /\ dx >= -dy

\* the direction of p from the centre of box lies between the angles s and e
InAngles(p, box, s, e) ==
    LET dx == 2 * p[1] - (box[1] + box[3])
        dy == 2 * p[2] - (box[2] + box[4])
    IN  \E k \in 0..7 : \E m \in 0..1 :
            /\ s <= 45 * k + 360 * m
            /\ 45 * (k + 1) + 360 * m <= e
            /\ InSector(dx, dy, k)

Shrink(box, d) == <<box[1] + d, box[2] + d, box[3] - d, box[4] - d>>

\* the pixels draw.arc(box, s, e, width) strokes
ArcPixels(box, s, e, width) ==
    {p \in Pixels(CanvasSide, CanvasSide) :
        /\ InEllipse(p, box)
        /\ ~InEllipse(p, Shrink(box, width))
        /\ InAngles(p, box, s, e)}

\* the pixels draw.pieslice(box, s, e) fills
PiePixels(box, s, e) ==
    {p \in Pixels(CanvasSide, CanvasSide) :
        InEllipse(p, box) /\ InAngles(p, box, s, e)}

\* the pixels draw.rectangle(box) fills
RectPixels(box) == {p \in Pixels(CanvasSide, CanvasSide) : InBox(p, box)}

\* the pixels draw.ellipse(box) fills
EllipsePixels(box) == {p \in Pixels(CanvasSide, CanvasSide) : InEllipse(p, box)}

\* a draw call paints its pixels with fill and leaves the others as they are
Paint(im, shape, fill) ==
    [im EXCEPT !.px = [p \in DOMAIN im.px |->
                          IF p \in shape THEN fill ELSE im.px[p]]]

----------------------------------------------------------------------------
(* Files.  img.save encodes the canvas as a PNG: the mode, the size and    *)
(* the pixels, and nothing of the time or of the run that wrote it.        *)

\* a mutant of PngEncode: the encoder stamps the file with the run that wrote it
PngEncodeStamped(im) ==
    [format |-> "PNG", mode |-> im.mode, size |-> im.size, px |-> im.px,
     stamp |-> run]

PngEncode(im) ==
    [format |-> "PNG", mode |-> im.mode, size |-> im.size, px |-> im.px]

\* what a save that failed after opening its file leaves: a cut-off file
Truncated == [format |-> "truncated"]
\* a file that was in the directory before the first run
Stale == [format |-> "stale"]

\* a mutant of WriteFile: the file is opened for exclusive creation, and a
\* file that exists is kept
WriteFileExclusive(fs, name, content) ==
    IF name \in DOMAIN fs
    THEN fs
    ELSE [n \in (DOMAIN fs) \cup {name} |-> IF n = name THEN content ELSE fs[n]]

\* open(path, "w+b") and write: the file is created or replaced, the others stay
WriteFile(fs, name, content) ==
    [n \in (DOMAIN fs) \cup {name} |-> IF n = name THEN content ELSE fs[n]]

\* a mutant of makedirs: only the last directory of the path is made
mkdirLeaf(ds, path) == ds \cup {path}

\* os.makedirs(path, exist_ok=True), when no mkdir fails
makedirs(ds, path) == ds \cup Prefixes(path)

\* start_angle = i * 45
StartAngle(k) == k * AngleStep
\* a mutant of EndAngle: the sweep is one step of 45 degrees
EndAngleOneStep(s) == s + AngleStep

\* end_angle = start_angle + 90
EndAngle(s) == s + AngleSweep

\* the value of a name that is not bound yet
Unbound == "unbound"
\* lastDone before any run has completed
NoRun == [none |-> TRUE]

\* a file of the output directory that is none of the script's
OtherName == "notes.txt"

----------------------------------------------------------------------------
(* Initial states: the script is about to run for the first time.  The     *)
(* output directory may exist or not, with or without its parent, and may  *)
(* hold files of an earlier build and a file that is not the script's.     *)

InitialFileSets ==
    {{}, {OtherName}, {SpinnerName(0), SpinnerName(3), BellName, OtherName}}

Init ==
    /\ platform \in {"nt", "posix"}
    /\ \E n \in 0..Len(out_dir(platform)) :
           dirs = {SubSeq(out_dir(platform), 1, k) : k \in 1..n}
    /\ \E names \in InitialFileSets :
           files = IF out_dir(platform) \in dirs
                   THEN [f \in names |-> Stale]
                   ELSE [f \in {} |-> Stale]
    /\ pc = "makedirs"
    /\ i = Unbound
    /\ it = 0
    /\ img = Unbound
    /\ start_angle = Unbound
    /\ end_angle = Unbound
    /\ out = <<>>
    /\ log = <<>>
    /\ draws = <<>>
    /\ run = 1
    /\ dirs0 = dirs
    /\ files0 = files
    /\ lastDone = NoRun

----------------------------------------------------------------------------
(* The statements of the script. *)

\* line 6: os.makedirs(out_dir, exist_ok=True) succeeds
MakeDirs ==
    /\ pc = "makedirs"
    /\ dirs' = makedirs(dirs, out_dir(platform))
    /\ log' = Append(log, [op |-> "makedirs", arg |-> ""])
    /\ pc' = "for"
    /\ UNCHANGED <<platform, files, i, it, img, start_angle, end_angle, out,
                   draws, run, dirs0, files0, lastDone>>

\* line 6: a mkdir of os.makedirs raises (permission denied, read-only disk):
\* the directories before the failing one have been made, the exception is
\* not caught and ends the run.  When the directory exists already every
\* OSError of mkdir is swallowed (exist_ok), so this needs a missing directory.
MakeDirsFail ==
    /\ pc = "makedirs"
    /\ out_dir(platform) \notin dirs
    /\ \E n \in 0..(Len(out_dir(platform)) - 1) :
           /\ SubSeq(out_dir(platform), 1, n + 1) \notin dirs
           /\ dirs' = dirs \cup {SubSeq(out_dir(platform), 1, k) : k \in 1..n}
    /\ log' = Append(log, [op |-> "raise", arg |-> "makedirs"])
    /\ pc' = "crashed"
    /\ UNCHANGED <<platform, files, i, it, img, start_angle, end_angle, out,
                   draws, run, dirs0, files0, lastDone>>

\* a mutant of ForNext: the loop steps by two
ForNextByTwo ==
    /\ pc = "for"
    /\ IF it < NumFrames
       THEN i' = it /\ it' = it + 2 /\ pc' = "new"
       ELSE i' = i /\ it' = it /\ pc' = "bell_new"
    /\ UNCHANGED <<platform, dirs, files, img, start_angle, end_angle, out,
                   log, draws, run, dirs0, files0, lastDone>>

\* line 9: for i in range(8): the next index, or the end of the loop
ForNext ==
    /\ pc = "for"
    /\ IF it < NumFrames
       THEN i' = it /\ it' = it + 1 /\ pc' = "new"
       ELSE i' = i /\ it' = it /\ pc' = "bell_new"
    /\ UNCHANGED <<platform, dirs, files, img, start_angle, end_angle, out,
                   log, draws, run, dirs0, files0, lastDone>>

\* a mutant of NewCanvas: one canvas, made before the loop, is drawn on by
\* every iteration
NewCanvasShared ==
    /\ pc = "new"
    /\ img' = IF i = 0
              THEN NewImage("RGBA", <<CanvasSide, CanvasSide>>, Transparent)
              ELSE img
    /\ pc' = "angles"
    /\ UNCHANGED <<platform, dirs, files, i, it, start_angle, end_angle, out,
                   log, draws, run, dirs0, files0, lastDone>>

\* lines 10-11: img = Image.new("RGBA", (16, 16), (0, 0, 0, 0)); draw = Draw(img)
NewCanvas ==
    /\ pc = "new"
    /\ img' = NewImage("RGBA", <<CanvasSide, CanvasSide>>, Transparent)
    /\ pc' = "angles"
    /\ UNCHANGED <<platform, dirs, files, i, it, start_angle, end_angle, out,
                   log, draws, run, dirs0, files0, lastDone>>

\* lines 12-13: start_angle = i * 45; end_angle = start_angle + 90
Angles ==
    /\ pc = "angles"
    /\ start_angle' = StartAngle(i)
    /\ end_angle' = EndAngle(start_angle')
    /\ pc' = "arc"
    /\ UNCHANGED <<platform, dirs, files, i, it, img, out, log, draws, run,
                   dirs0, files0, lastDone>>

\* line 15: draw.arc([1, 1, 14, 14], start_angle, end_angle, fill=..., width=2)
DrawArc ==
    /\ pc = "arc"
    /\ img' = Paint(img, ArcPixels(ArcBox, start_angle, end_angle, ArcWidth),
                    ArcFill)
    /\ draws' = Append(draws, [op |-> "arc", box |-> ArcBox, fill |-> ArcFill,
                               start |-> start_angle, end |-> end_angle])
    /\ pc' = "save"
    /\ UNCHANGED <<platform, dirs, files, i, it, start_angle, end_angle, out,
                   log, run, dirs0, files0, lastDone>>

\* line 16: img.save(os.path.join(out_dir, f"spinner_{i}.png")) succeeds
SaveSpinner ==
    /\ pc = "save"
    /\ out_dir(platform) \in dirs
    /\ files' = WriteFile(files, SpinnerName(i), PngEncode(img))
    /\ log' = Append(log, [op |-> "write", arg |-> SpinnerName(i)])
    /\ pc' = "print"
    /\ UNCHANGED <<platform, dirs, i, it, img, start_angle, end_angle, out,
                   draws, run, dirs0, files0, lastDone>>

\* a mutant of SaveSpinnerFail: the exception is caught and the save tried again
SaveSpinnerFailRetried ==
    /\ pc = "save"
    /\ \/ files' = files
       \/ files' = WriteFile(files, SpinnerName(i), Truncated)
    /\ log' = Append(log, [op |-> "raise", arg |-> SpinnerName(i)])
    /\ pc' = "save"
    /\ UNCHANGED <<platform, dirs, i, it, img, start_angle, end_angle, out,
                   draws, run, dirs0, files0, lastDone>>

\* line 16: img.save raises (permission denied, disk full): the file is as
\* it was when it could not be opened, cut off when the write failed; the
\* exception is not caught and ends the run
SaveSpinnerFail ==
    /\ pc = "save"
    /\ \/ files' = files
       \/ files' = WriteFile(files, SpinnerName(i), Truncated)
    /\ log' = Append(log, [op |-> "raise", arg |-> SpinnerName(i)])
    /\ pc' = "crashed"
    /\ UNCHANGED <<platform, dirs, i, it, img, start_angle, end_angle, out,
                   draws, run, dirs0, files0, lastDone>>

\* a mutant of PrintSpinner: the line names frame 0 whatever the frame
PrintSpinnerFixed ==
    /\ pc = "print"
    /\ out' = Append(out, Generated(SpinnerName(0)))
    /\ log' = Append(log, [op |-> "print", arg |-> Generated(SpinnerName(0))])
    /\ pc' = "for"
    /\ UNCHANGED <<platform, dirs, files, i, it, img, start_angle, end_angle,
                   draws, run, dirs0, files0, lastDone>>

\* line 17: print(f"Generated spinner_{i}.png")
PrintSpinner ==
    /\ pc = "print"
    /\ out' = Append(out, Generated(SpinnerName(i)))
    /\ log' = Append(log, [op |-> "print", arg |-> Generated(SpinnerName(i))])
    /\ pc' = "for"
    /\ UNCHANGED <<platform, dirs, files, i, it, img, start_angle, end_angle,
                   draws, run, dirs0, files0, lastDone>>

\* lines 20-22: img = Image.new("RGBA", (16, 16), (0, 0, 0, 0)); draw = Draw(img)
BellNew ==
    /\ pc = "bell_new"
    /\ img' = NewImage("RGBA", <<CanvasSide, CanvasSide>>, Transparent)
    /\ pc' = "pieslice"
    /\ UNCHANGED <<platform, dirs, files, i, it, start_angle, end_angle, out,
                   log, draws, run, dirs0, files0, lastDone>>

\* line 24: draw.pieslice([3, 1, 12, 10], 180, 360, fill=bell_color)
BellDome ==
    /\ pc = "pieslice"
    /\ img' = Paint(img, PiePixels(DomeBox, DomeStart, DomeEnd), bell_color)
    /\ draws' = Append(draws, [op |-> "pieslice", box |-> DomeBox,
                               fill |-> bell_color,
                               start |-> DomeStart, end |-> DomeEnd])
    /\ pc' = "body"
    /\ UNCHANGED <<platform, dirs, files, i, it, start_angle, end_angle, out,
                   log, run, dirs0, files0, lastDone>>

\* line 26: draw.rectangle([3, 6, 12, 11], fill=bell_color)
BellBody ==
    /\ pc = "body"
    /\ img' = Paint(img, RectPixels(BodyBox), bell_color)
    /\ draws' = Append(draws, [op |-> "rectangle", box |-> BodyBox,
                               fill |-> bell_color])
    /\ pc' = "rim"
    /\ UNCHANGED <<platform, dirs, files, i, it, start_angle, end_angle, out,
                   log, run, dirs0, files0, lastDone>>

\* line 28: draw.rectangle([2, 11, 13, 13], fill=bell_color)
BellRim ==
    /\ pc = "rim"
    /\ img' = Paint(img, RectPixels(RimBox), bell_color)
    /\ draws' = Append(draws, [op |-> "rectangle", box |-> RimBox,
                               fill |-> bell_color])
    /\ pc' = "clapper"
    /\ UNCHANGED <<platform, dirs, files, i, it, start_angle, end_angle, out,
                   log, run, dirs0, files0, lastDone>>

\* line 30: draw.ellipse([6, 13, 9, 15], fill=bell_color)
BellClapper ==
    /\ pc = "clapper"
    /\ img' = Paint(img, EllipsePixels(ClapperBox), bell_color)
    /\ draws' = Append(draws, [op |-> "ellipse", box |-> ClapperBox,
                               fill |-> bell_color])
    /\ pc' = "bell_save"
    /\ UNCHANGED <<platform, dirs, files, i, it, start_angle, end_angle, out,
                   log, run, dirs0, files0, lastDone>>

\* line 31: img.save(os.path.join(out_dir, "bell.png")) succeeds
SaveBell ==
    /\ pc = "bell_save"
    /\ out_dir(platform) \in dirs
    /\ files' = WriteFile(files, BellName, PngEncode(img))
    /\ log' = Append(log, [op |-> "write", arg |-> BellName])
    /\ pc' = "bell_print"
    /\ UNCHANGED <<platform, dirs, i, it, img, start_angle, end_angle, out,
                   draws, run, dirs0, files0, lastDone>>

\* line 31: img.save raises, as in the loop
SaveBellFail ==
    /\ pc = "bell_save"
    /\ \/ files' = files
       \/ files' = WriteFile(files, BellName, Truncated)
    /\ log' = Append(log, [op |-> "raise", arg |-> BellName])
    /\ pc' = "crashed"
    /\ UNCHANGED <<platform, dirs, i, it, img, start_angle, end_angle, out,
                   draws, run, dirs0, files0, lastDone>>

\* line 32: print("Generated bell.png")
PrintBell ==
    /\ pc = "bell_print"
    /\ out' = Append(out, Generated(BellName))
    /\ log' = Append(log, [op |-> "print", arg |-> Generated(BellName)])
    /\ pc' = "final_print"
    /\ UNCHANGED <<platform, dirs, files, i, it, img, start_angle, end_angle,
                   draws, run, dirs0, files0, lastDone>>

\* line 33: print("All icons generated successfully!"), the end of the script
PrintFinal ==
    /\ pc = "final_print"
    /\ out' = Append(out, AllDone)
    /\ log' = Append(log, [op |-> "print", arg |-> AllDone])
    /\ pc' = "done"
    /\ UNCHANGED <<platform, dirs, files, i, it, img, start_angle, end_angle,
                   draws, run, dirs0, files0, lastDone>>

\* the script is started again after a run that has ended: a new process,
\* with no name bound and nothing printed, on the filesystem as it was left
Rerun ==
    /\ pc \in {"done", "crashed"}
    /\ run < MaxRuns
    /\ run' = run + 1
    /\ pc' = "makedirs"
    /\ i' = Unbound
    /\ it' = 0
    /\ img' = Unbound
    /\ start_angle' = Unbound
    /\ end_angle' = Unbound
    /\ out' = <<>>
    /\ log' = <<>>
    /\ draws' = <<>>
    /\ dirs0' = dirs
    /\ files0' = files
    /\ lastDone' = IF pc = "done" THEN files ELSE lastDone
    /\ UNCHANGED <<platform, dirs, files>>

Next ==
    \/ MakeDirs
    \/ MakeDirsFail
    \/ ForNext
    \/ NewCanvas
    \/ Angles
    \/ DrawArc
    \/ SaveSpinner
    \/ SaveSpinnerFail
    \/ PrintSpinner
    \/ BellNew
    \/ BellDome
    \/ BellBody
    \/ BellRim
    \/ BellClapper
    \/ SaveBell
    \/ SaveBellFail
    \/ PrintBell
    \/ PrintFinal
    \/ Rerun

Spec == Init /\ [][Next]_vars

----------------------------------------------------------------------------
(* What the properties are stated against: the names, lines and images the *)
(* documentation gives, written out.                                       *)

FrameNames ==
    <<"spinner_0.png", "spinner_1.png", "spinner_2.png", "spinner_3.png",
      "spinner_4.png", "spinner_5.png", "spinner_6.png", "spinner_7.png">>

NineNames == {FrameNames[k] : k \in 1..8} \cup {"bell.png"}

Range(s) == {s[k] : k \in 1..Len(s)}

BlankCanvas ==
    [mode |-> "RGBA", size |-> <<16, 16>>,
     px |-> [p \in (0..15) \X (0..15) |-> <<0, 0, 0, 0>>]]

\* the pixels of the arc of frame k: 90 degrees from 45 * k, width 2
FrameArc ==
    [k \in 0..7 |-> ArcPixels(<<1, 1, 14, 14>>, 45 * k, 45 * k + 90, 2)]

\* the pixels of the four shapes of the bell
BellShape ==
    PiePixels(<<3, 1, 12, 10>>, 180, 360) \cup RectPixels(<<3, 6, 12, 11>>)
        \cup RectPixels(<<2, 11, 13, 13>>) \cup EllipsePixels(<<6, 13, 9, 15>>)

\* the file each icon specification stands for
Icons ==
    [n \in NineNames |->
        IF n = "bell.png"
        THEN [format |-> "PNG", mode |-> "RGBA", size |-> <<16, 16>>,
              px |-> [p \in (0..15) \X (0..15) |->
                         IF p \in BellShape THEN <<220, 80, 40, 255>>
                                            ELSE <<0, 0, 0, 0>>]]
        ELSE LET k == CHOOSE j \in 0..7 : FrameNames[j + 1] = n
             IN  [format |-> "PNG", mode |-> "RGBA", size |-> <<16, 16>>,
                  px |-> [p \in (0..15) \X (0..15) |->
                             IF p \in FrameArc[k] THEN <<0, 102, 204, 255>>
                                                  ELSE <<0, 0, 0, 0>>]]]

\* the names of the files the current run has written so far, in order
Written == SelectSeq(log, LAMBDA e : e.op = "write")

\* file n is as it was when the current run started
Untouched(n) ==
    /\ (n \in DOMAIN files) <=> (n \in DOMAIN files0)
    /\ n \in DOMAIN files => files[n] = files0[n]

----------------------------------------------------------------------------
(* C1: a run that starts with an empty output directory and completes      *)
(* leaves exactly the nine files spinner_0.png .. spinner_7.png and        *)
(* bell.png, each a 16x16 image with an alpha channel, and no other file.  *)

C1_NineFiles ==
    (pc = "done" /\ DOMAIN files0 = {}) =>
        /\ DOMAIN files = NineNames
        /\ Cardinality(DOMAIN files) = 9
        /\ \A n \in DOMAIN files :
               /\ files[n].format = "PNG"
               /\ files[n].size = <<16, 16>>
               /\ files[n].mode = "RGBA"

C1_Witness ==
    /\ pc = "done"
    /\ DOMAIN files0 = {}
    /\ dirs0 = {}
    /\ "spinner_7.png" \in DOMAIN files

----------------------------------------------------------------------------
(* C2: every run follows the one linear order Prepare, Spinner 0, ...,     *)
(* Spinner 7, Bell, Done: the steps a run has taken (the directory made,   *)
(* the files written, the final message) are always an initial part of     *)
(* that order, so no step is taken out of turn, twice, or after a skipped  *)
(* one, and the final message comes after all nine files.                  *)

LinearOrder ==
    <<[op |-> "makedirs", arg |-> ""]>>
        \o [k \in 1..8 |-> [op |-> "write", arg |-> FrameNames[k]]]
        \o <<[op |-> "write", arg |-> "bell.png"],
             [op |-> "print", arg |-> "All icons generated successfully!"]>>

Steps ==
    SelectSeq(log, LAMBDA e :
        \/ e.op \in {"makedirs", "write"}
        \/ e.op = "print" /\ e.arg = AllDone)

C2_LinearOrder ==
    /\ Len(Steps) <= Len(LinearOrder)
    /\ Steps = SubSeq(LinearOrder, 1, Len(Steps))
    /\ pc = "done" => Steps = LinearOrder

C2_Witness == pc = "done" /\ run = 2 /\ Len(Steps) = 11

----------------------------------------------------------------------------
(* C3: a second complete run leaves each of the nine files with the        *)
(* content the earlier complete run left, and that content is the one the  *)
(* file's icon specification gives (for spinner_i.png, a function of i).   *)

C3_Idempotent ==
    pc = "done" =>
        /\ \A n \in NineNames : n \in DOMAIN files /\ files[n] = Icons[n]
        /\ lastDone # NoRun =>
               \A n \in NineNames : files[n] = lastDone[n]

C3_Witness == pc = "done" /\ run = 2 /\ lastDone # NoRun

----------------------------------------------------------------------------
(* C4: a filesystem failure ends the run where it happens: nothing follows *)
(* the raised exception in the run, no progress line for the failed file   *)
(* and no final line is printed, the files written before the failure are  *)
(* on disk as written, and the files later in the order are untouched.     *)

C4_FailureIsFatal ==
    \A k \in 1..Len(log) :
        log[k].op = "raise" =>
            /\ k = Len(log)
            /\ pc = "crashed"
            /\ AllDone \notin Range(out)
            /\ Generated(log[k].arg) \notin Range(out)
            /\ \A j \in 1..(k - 1) :
                   log[j].op = "write" =>
                       /\ log[j].arg \in DOMAIN files
                       /\ files[log[j].arg] = Icons[log[j].arg]
            /\ \A n \in NineNames :
                   (n # log[k].arg /\ n \notin {e.arg : e \in Range(Written)})
                       => Untouched(n)

C4_Witness ==
    /\ pc = "crashed"
    /\ Len(Written) = 3
    /\ files0 # files
    /\ "spinner_3.png" \in DOMAIN files
    /\ files["spinner_3.png"] = Truncated

----------------------------------------------------------------------------
(* C5: frame i is drawn from 45 * i to 45 * i + 90 degrees, consecutive    *)
(* frames overlap by 45 degrees, and modulo 360 every angle 0..359 lies in *)
(* the span of at least two of the eight frames.                           *)

\* the angle a, modulo 360, lies in the span of the draw call d
Spans(d, a) == \E m \in 0..1 : d.start <= a + 360 * m /\ a + 360 * m <= d.end

ArcDraws == SelectSeq(draws, LAMBDA d : d.op = "arc")

C5_ArcCoverage ==
    /\ \A k \in 1..Len(ArcDraws) :
           /\ ArcDraws[k].start = 45 * (k - 1)
           /\ ArcDraws[k].end = 45 * (k - 1) + 90
           /\ k > 1 => ArcDraws[k - 1].end - ArcDraws[k].start = 45
    /\ pc = "done" =>
           /\ Len(ArcDraws) = 8
           /\ \A a \in 0..359 :
                  Cardinality({k \in 1..8 : Spans(ArcDraws[k], a)}) >= 2

C5_Witness ==
    /\ pc = "done"
    /\ Len(ArcDraws) = 8
    /\ ArcDraws[8].end = 405
    /\ Spans(ArcDraws[8], 20)

----------------------------------------------------------------------------
(* C6: the directory-preparation step makes the output directory and all   *)
(* its missing parents exist and removes none; when the directory exists   *)
(* already the step cannot fail and changes no directory; it leaves the    *)
(* files as they were and prints nothing.                                  *)

C6_DirectoryPrepared ==
    /\ (pc = "for" /\ it = 0) =>
           /\ \A n \in 1..Len(out_dir(platform)) :
                  SubSeq(out_dir(platform), 1, n) \in dirs
           /\ dirs0 \subseteq dirs
           /\ \A d \in dirs \ dirs0 :
                  \E n \in 1..Len(out_dir(platform)) :
                      d = SubSeq(out_dir(platform), 1, n)
           /\ files = files0
           /\ out = <<>>
           /\ log = <<[op |-> "makedirs", arg |-> ""]>>
    /\ (pc = "crashed" /\ log # <<>> /\ log[1].op = "raise") =>
           /\ out_dir(platform) \notin dirs0
           /\ files = files0
           /\ out = <<>>

C6_Witness ==
    /\ pc = "for"
    /\ it = 0
    /\ platform = "nt"
    /\ dirs0 = {}
    /\ dirs = {<<"src">>, <<"src", "Resources">>}

----------------------------------------------------------------------------
(* C7: the lines printed are always an initial part of the ten lines of a  *)
(* complete run (the eight frames in ascending order, the bell, the final  *)
(* line), a complete run has printed all ten, the progress line of a file  *)
(* is printed after the file is written, and the number of progress lines  *)
(* is the number of files written or one less.                             *)

TenLines ==
    <<"Generated spinner_0.png", "Generated spinner_1.png",
      "Generated spinner_2.png", "Generated spinner_3.png",
      "Generated spinner_4.png", "Generated spinner_5.png",
      "Generated spinner_6.png", "Generated spinner_7.png",
      "Generated bell.png", "All icons generated successfully!">>

Progress == SelectSeq(out, LAMBDA l : l # "All icons generated successfully!")

C7_OutputLines ==
    /\ Len(out) <= 10
    /\ out = SubSeq(TenLines, 1, Len(out))
    /\ pc = "done" => Len(out) = 10
    /\ Len(Progress) \in {Len(Written), Len(Written) - 1}
    /\ \A k \in 1..Len(Progress) :
           Progress[k] = "Generated " \o Written[k].arg
    /\ Len(out) = 10 => Len(Written) = 9

C7_Witness ==
    /\ pc = "done"
    /\ Len(out) = 10
    /\ Len(Progress) = 9
    /\ Len(Written) = 9

----------------------------------------------------------------------------
(* C8, as stated: each icon is drawn on a canvas that is 16x16 and fully   *)
(* transparent when its first draw call begins, spinner_i.png holds no     *)
(* pixel of the arc of another frame, and bell.png none of the arc of      *)
(* frame 7.  The first and the last part hold; the middle one does not:    *)
(* the arcs of neighbouring frames share 45 degrees.                       *)

C8_NoPixelOfAnotherFrame ==
    /\ pc \in {"arc", "pieslice"} => img = BlankCanvas
    /\ pc = "print" =>
           \A j \in (0..7) \ {i} : \A p \in FrameArc[j] :
               files[FrameNames[i + 1]].px[p] # <<0, 102, 204, 255>>
    /\ pc = "bell_print" =>
           \A p \in FrameArc[7] : files["bell.png"].px[p] # <<0, 102, 204, 255>>

(* C8, amended: each icon is drawn on a canvas that is 16x16 and fully     *)
(* transparent when its first draw call begins, so every pixel of          *)
(* spinner_i.png that is not transparent lies on the arc of frame i (a     *)
(* pixel of another frame's arc appears only where that arc and frame i's  *)
(* overlap), and bell.png holds no pixel of the arc of frame 7.            *)

C8_FreshCanvas ==
    /\ pc \in {"arc", "pieslice"} => img = BlankCanvas
    /\ pc = "print" =>
           LET f == files[FrameNames[i + 1]]
           IN  \A p \in DOMAIN f.px :
                   f.px[p] # <<0, 0, 0, 0>> => p \in FrameArc[i]
    /\ pc = "bell_print" =>
           \A p \in FrameArc[7] : files["bell.png"].px[p] # <<0, 102, 204, 255>>

C8_Witness ==
    /\ pc = "print"
    /\ i = 1
    /\ <<10, 13>> \in FrameArc[0] \cap FrameArc[1]
    /\ files["spinner_1.png"].px[<<10, 13>>] = <<0, 102, 204, 255>>

----------------------------------------------------------------------------
(* C9: every draw call of a run has a bounding box inside the canvas with  *)
(* its corners in order, colour components in 0..255 and, for an arc, a    *)
(* start angle below its end angle; a complete run makes the twelve draw   *)
(* calls: eight arcs, the pie-slice, two rectangles, the ellipse.          *)

C9_ValidDrawParameters ==
    /\ \A k \in 1..Len(draws) :
           LET d == draws[k]
           IN  /\ 0 <= d.box[1] /\ d.box[1] <= d.box[3] /\ d.box[3] <= 15
               /\ 0 <= d.box[2] /\ d.box[2] <= d.box[4] /\ d.box[4] <= 15
               /\ \A c \in 1..4 : d.fill[c] \in 0..255
               /\ d.op = "arc" => d.start < d.end
    /\ pc = "done" =>
           [k \in 1..Len(draws) |-> draws[k].op] =
               <<"arc", "arc", "arc", "arc", "arc", "arc", "arc", "arc",
                 "pieslice", "rectangle", "rectangle", "ellipse">>

C9_Witness ==
    /\ pc = "done"
    /\ Len(draws) = 12
    /\ draws[12].op = "ellipse"
    /\ draws[12].box[4] = 15

----------------------------------------------------------------------------
(* C10: a run writes only the nine named files and none of them twice, a   *)
(* complete run has written each once; a file the run has written holds    *)
(* the newly generated content whatever it held before, no other file      *)
(* appears, and every other file of the directory is as it was.            *)

C10_WritesOnlyNineFiles ==
    /\ \A k \in 1..Len(Written) :
           /\ Written[k].arg \in NineNames
           /\ \A j \in 1..Len(Written) : Written[j].arg = Written[k].arg => j = k
           /\ Written[k].arg \in DOMAIN files
           /\ files[Written[k].arg] = Icons[Written[k].arg]
    /\ pc = "done" => {Written[k].arg : k \in 1..Len(Written)} = NineNames
    /\ DOMAIN files \subseteq (DOMAIN files0) \cup NineNames
    /\ \A n \in (DOMAIN files0) \ NineNames : Untouched(n)

C10_Witness ==
    /\ pc = "done"
    /\ run = 1
    /\ "spinner_3.png" \in DOMAIN files0
    /\ files0["spinner_3.png"] = Stale
    /\ files["spinner_3.png"] = Icons["spinner_3.png"]
    /\ "notes.txt" \in DOMAIN files0
    /\ files["notes.txt"] = Stale

====
